---- MODULE Spec2Model ----
(***************************************************************************)
(* Alcovia intervention engine: the Express/socket.io server               *)
(* (backend server.js, src/unnamed/part_002) over the PostgreSQL schema    *)
(* (src/unnamed/part_001).                                                 *)
(*                                                                         *)
(* Every `await query(...)` of a handler is one atomic step (one SQL       *)
(* statement); the synchronous JavaScript that follows it, up to the next  *)
(* await, belongs to the same step.  Handlers of different requests        *)
(* interleave at their awaits.                                             *)
(*                                                                         *)
(* Columns no handler reads back and no property mentions (students.name,  *)
(* students.email, students.updated_at, daily_logs.session_date) are left  *)
(* out of the rows.                                                        *)
(***************************************************************************)
EXTENDS Integers, Sequences, FiniteSets, TLC

----------------------------------------------------------------------------
(* Bounds of the model *)

MaxLogs == 2        \* at most this many daily_logs rows are inserted
MaxInFlight == 2    \* request handlers that can be suspended at once
MaxNow == 18        \* the clock stops here (hours)
TickHours == 6      \* granularity of the clock (hours)
MaxHistory == 32    \* check-ins already stored when a history is asked for

----------------------------------------------------------------------------
(* Values *)

NULL == "NULL"            \* SQL NULL, JS null/undefined, for text values
NoId == 0                 \* null/undefined intervention or log id (SERIAL ids start at 1)
NoTime == 0 - 1           \* NULL timestamp
Undefined == 0 - 100      \* a numeric body field that is missing

ExpiryHours == 12         \* INTERVAL '12 hours'

StudentIds == {"123", "456"}       \* rows of the students table
UnknownStudent == "999"            \* a student_id with no row
BodyStudentIds == StudentIds \cup {UnknownStudent, NULL}

\* (quiz_score, focus_minutes, tab_switches) of the check-in bodies tried
ValidInputs == { <<5, 30, 1>>, <<9, 90, 0>> }
InvalidInputs == { <<11, 90, 0>>, <<9, 0 - 5, 0>>, <<Undefined, 90, 0>> }

RemedialTasks == {"Read Ch.4", "Redo quiz"}
MentorEmails == {"m@x.com"}
InterventionIds == 0 .. MaxLogs        \* NoId and every id that can exist

Slots == 1 .. MaxInFlight
SocketIds == {"sockA", "sockB"}

----------------------------------------------------------------------------
VARIABLES
    students,           \* students table: student_id -> status
    daily_logs,         \* daily_logs table, row k has id k
    interventions,      \* interventions table, row k has id k
    now,                \* CURRENT_TIMESTAMP, in hours
    inflight,           \* the request handlers: slot -> request, locals, position, response
    pre,                \* the tables when the current batch of requests began
    batch,              \* requests begun since the server was last quiescent
                        \* (counted up to MaxInFlight + 1)
    connectedStudents,  \* the Map student_id -> socket.id, in insertion order
    sockets,            \* socket ids whose connection is open
    emitted,            \* io.to(socketId).emit(event, data) calls made since the
                        \* current batch of requests began
    n8nPosts,           \* intervention ids posted to the n8n webhook since the
                        \* current batch of requests began
    N8N_WEBHOOK_URL,    \* whether process.env.N8N_WEBHOOK_URL is set
    client              \* the student's page: its React state and the request it
                        \* is waiting for

store == <<students, daily_logs, interventions>>
push == <<connectedStudents, sockets, emitted>>
vars == <<students, daily_logs, interventions, now, inflight, pre, batch,
          connectedStudents, sockets, emitted, n8nPosts, N8N_WEBHOOK_URL, client>>

----------------------------------------------------------------------------
(* Requests *)

NoBody ==
    [student_id |-> NULL, quiz_score |-> Undefined, focus_minutes |-> Undefined,
     tab_switches |-> 0, remedial_task |-> NULL, mentor_email |-> NULL,
     intervention_id |-> NoId]

\* logs, interventions: the ids of the rows a history answer lists, in order
NoRes ==
    [code |-> 0, status |-> NULL, passed |-> FALSE, intervention_id |-> NoId,
     error |-> NULL, logs |-> <<>>, interventions |-> <<>>]

\* webhook: how the handler's axios.post settled ("none" while it has not)
\* student: the status in the students row a GET handler has read
Idle ==
    [op |-> "none", pc |-> "idle", body |-> NoBody, passed |-> FALSE,
     dailyLog |-> NoId, intervention |-> NoId, webhook |-> "none",
     student |-> NULL, logs |-> <<>>, res |-> NoRes]

FreeSlot(i) == inflight[i].pc \in {"idle", "done"}

Quiescent == \A i \in Slots : FreeSlot(i)

Snapshot ==
    [students |-> students, daily_logs |-> daily_logs, interventions |-> interventions]

\* res.json(...) : the handler is finished with a 200 response
Respond(r, status, passed, iid) ==
    [r EXCEPT !.pc = "done",
              !.res = [NoRes EXCEPT !.code = 200, !.status = status,
                                    !.passed = passed, !.intervention_id = iid]]

\* res.status(code).json({ error }) : the handler is finished with an error
Reject(r, code, error) ==
    [r EXCEPT !.pc = "done", !.res = [NoRes EXCEPT !.code = code, !.error = error]]

\* A request is taken by the first handler slot that is not busy; r is the
\* handler after its synchronous beginning.  When the server is quiescent
\* the finished handlers are forgotten and a new batch of requests begins.
Begin(i, r) ==
    /\ FreeSlot(i)
    /\ \A j \in Slots : j < i => ~FreeSlot(j)
    /\ inflight' = IF Quiescent
                      THEN [j \in Slots |-> IF j = i THEN r ELSE Idle]
                      ELSE [inflight EXCEPT ![i] = r]
    /\ pre' = IF Quiescent THEN Snapshot ELSE pre
    /\ emitted' = IF Quiescent THEN {} ELSE emitted
    /\ n8nPosts' = IF Quiescent THEN {} ELSE n8nPosts
    /\ batch' = IF Quiescent THEN 1
                 ELSE IF batch < MaxInFlight + 1 THEN batch + 1 ELSE batch

----------------------------------------------------------------------------
(* Notification dispatcher *)

\* connectedStudents.get(studentId)
MapGet(m, studentId) ==
    IF \E k \in DOMAIN m : m[k].studentId = studentId
       THEN (CHOOSE e \in {m[k] : k \in DOMAIN m} : e.studentId = studentId).socketId
       ELSE NULL

\* a set that always adds an entry, keeping the one already there
MapSetAppend(m, studentId, socketId) ==
    Append(m, [studentId |-> studentId, socketId |-> socketId])

\* connectedStudents.set(studentId, socketId): an existing key keeps its
\* place in the iteration order, a new key goes last
MapSet(m, studentId, socketId) ==
    IF \E k \in DOMAIN m : m[k].studentId = studentId
       THEN [k \in DOMAIN m |->
                IF m[k].studentId = studentId
                   THEN [studentId |-> studentId, socketId |-> socketId]
                   ELSE m[k]]
       ELSE Append(m, [studentId |-> studentId, socketId |-> socketId])

\* the emits after an io.emit to every registered session
notifyEverySession(studentId, event, data) ==
    emitted \cup {[socketId |-> connectedStudents[k].socketId, event |-> event,
                   data |-> data] : k \in DOMAIN connectedStudents}

\* the emits after notifyStudent(studentId, event, data)
notifyStudent(studentId, event, data) ==
    LET socketId == MapGet(connectedStudents, studentId)
    IN  IF socketId # NULL
           THEN emitted \cup {[socketId |-> socketId, event |-> event, data |-> data]}
           ELSE emitted

\* an event that always says the student is active
StatusDataActive(status) ==
    [status |-> "active", remedial_task |-> NULL, mentor_email |-> NULL]

StatusData(status) ==
    [status |-> status, remedial_task |-> NULL, mentor_email |-> NULL]

----------------------------------------------------------------------------
(* Row updates (single SQL statements) *)

\* UPDATE students SET status = ... WHERE student_id = $1
UpdateStudentStatus(tbl, student_id, status) ==
    [s \in DOMAIN tbl |-> IF s = student_id THEN status ELSE tbl[s]]

\* the assignment with WHERE id = $4 alone
UpdateAssignedById(tbl, body, ts) ==
    [k \in DOMAIN tbl |->
        IF tbl[k].id = body.intervention_id
           THEN [tbl[k] EXCEPT !.status = "assigned",
                               !.remedial_task = body.remedial_task,
                               !.mentor_email = body.mentor_email,
                               !.assigned_at = ts]
           ELSE tbl[k]]

\* the assignment without the mentor's address
UpdateAssignedNoMentor(tbl, body, ts) ==
    [k \in DOMAIN tbl |->
        IF tbl[k].student_id = body.student_id /\ tbl[k].id = body.intervention_id
           THEN [tbl[k] EXCEPT !.status = "assigned",
                               !.remedial_task = body.remedial_task,
                               !.assigned_at = ts]
           ELSE tbl[k]]

\* the completion without its time
UpdateCompletedNoTime(tbl, body, ts) ==
    [k \in DOMAIN tbl |->
        IF tbl[k].student_id = body.student_id /\ tbl[k].id = body.intervention_id
           THEN [tbl[k] EXCEPT !.status = "completed"]
           ELSE tbl[k]]

\* UPDATE interventions SET status = 'assigned', remedial_task = $1,
\*   mentor_email = $2, assigned_at = CURRENT_TIMESTAMP
\*   WHERE student_id = $3 AND id = $4
UpdateAssigned(tbl, body, ts) ==
    [k \in DOMAIN tbl |->
        IF tbl[k].student_id = body.student_id /\ tbl[k].id = body.intervention_id
           THEN [tbl[k] EXCEPT !.status = "assigned",
                               !.remedial_task = body.remedial_task,
                               !.mentor_email = body.mentor_email,
                               !.assigned_at = ts]
           ELSE tbl[k]]

\* a completion that, given no id, closes every open ticket of the student
UpdateCompletedOrOpen(tbl, body, ts) ==
    [k \in DOMAIN tbl |->
        IF /\ tbl[k].student_id = body.student_id
           /\ \/ tbl[k].id = body.intervention_id
              \/ body.intervention_id = NoId /\ tbl[k].status \in {"pending", "assigned"}
           THEN [tbl[k] EXCEPT !.status = "completed", !.completed_at = ts]
           ELSE tbl[k]]

\* UPDATE interventions SET status = 'completed', completed_at = CURRENT_TIMESTAMP
\*   WHERE student_id = $1 AND id = $2
UpdateCompleted(tbl, body, ts) ==
    [k \in DOMAIN tbl |->
        IF tbl[k].student_id = body.student_id /\ tbl[k].id = body.intervention_id
           THEN [tbl[k] EXCEPT !.status = "completed", !.completed_at = ts]
           ELSE tbl[k]]

\* INSERT INTO daily_logs (...) VALUES (...) RETURNING *
NewLog(id, body, passed, ts) ==
    [id |-> id, student_id |-> body.student_id, quiz_score |-> body.quiz_score,
     focus_minutes |-> body.focus_minutes, tab_switches |-> body.tab_switches,
     passed |-> passed, created_at |-> ts]

\* a ticket row whose expires_at is left at the time of insertion
NewInterventionNoWindow(id, student_id, trigger_log_id, ts) ==
    [id |-> id, student_id |-> student_id, trigger_log_id |-> trigger_log_id,
     mentor_email |-> NULL, remedial_task |-> NULL, status |-> "pending",
     assigned_at |-> NoTime, completed_at |-> NoTime, created_at |-> ts,
     expires_at |-> ts]

\* INSERT INTO interventions (student_id, trigger_log_id, status, expires_at)
\*   VALUES ($1, $2, 'pending', CURRENT_TIMESTAMP + INTERVAL '12 hours')
NewIntervention(id, student_id, trigger_log_id, ts) ==
    [id |-> id, student_id |-> student_id, trigger_log_id |-> trigger_log_id,
     mentor_email |-> NULL, remedial_task |-> NULL, status |-> "pending",
     assigned_at |-> NoTime, completed_at |-> NoTime, created_at |-> ts,
     expires_at |-> ts + ExpiryHours]

\* a gate that also fails a quiz score of 8
LogicGateOffByOne(quiz_score, focus_minutes, tab_switches) ==
    quiz_score > 8 /\ focus_minutes > 60 /\ tab_switches < 3

\* a gate that ignores tab_switches
LogicGateNoTabs(quiz_score, focus_minutes, tab_switches) ==
    quiz_score > 7 /\ focus_minutes > 60

\* THE LOGIC GATE
LogicGate(quiz_score, focus_minutes, tab_switches) ==
    quiz_score > 7 /\ focus_minutes > 60 /\ tab_switches < 3

----------------------------------------------------------------------------
(* POST /api/daily-checkin *)

\* handlers that will still insert a daily_logs row
LogsToCome ==
    Cardinality({j \in Slots : /\ inflight[j].op = "daily-checkin"
                               /\ inflight[j].pc \in {"select_student", "insert_log"}})

\* validation that only looks for missing fields
ValidationPresenceOnly(body) ==
    IF \/ body.student_id = NULL
       \/ body.quiz_score = Undefined
       \/ body.focus_minutes = Undefined
       THEN "Missing required fields: student_id, quiz_score, focus_minutes"
       ELSE NULL

\* the validation of a check-in: the error it is rejected with, or NULL
Validation(body) ==
    IF \/ body.student_id = NULL
       \/ body.quiz_score = Undefined
       \/ body.focus_minutes = Undefined
       THEN "Missing required fields: student_id, quiz_score, focus_minutes"
    ELSE IF body.quiz_score < 0 \/ body.quiz_score > 10
       THEN "quiz_score must be between 0 and 10"
    ELSE IF body.focus_minutes < 0
       THEN "focus_minutes must be non-negative"
    ELSE NULL

\* the request arrives: destructuring, validation, and the SELECT is issued
DailyCheckinBegins(i, body) ==
    LET r == [Idle EXCEPT !.op = "daily-checkin", !.body = body]
    IN  /\ Len(daily_logs) + LogsToCome < MaxLogs
        /\ Begin(i,
              IF Validation(body) # NULL
                 THEN Reject(r, 400, Validation(body))
                 ELSE [r EXCEPT !.pc = "select_student"])
        /\ UNCHANGED <<store, now, connectedStudents, sockets, N8N_WEBHOOK_URL>>

\* a check-in sent by anyone but the modelled page
DailyCheckin(i, body) == DailyCheckinBegins(i, body) /\ UNCHANGED client

\* the logic gate without the check that the student exists
CheckinSelectStudentUnchecked(i) ==
    LET r == inflight[i]
    IN  /\ r.op = "daily-checkin" /\ r.pc = "select_student"
        /\ inflight' = [inflight EXCEPT ![i] =
              [r EXCEPT !.pc = "insert_log",
                        !.passed = LogicGate(r.body.quiz_score, r.body.focus_minutes,
                                             r.body.tab_switches)]]
        /\ UNCHANGED <<store, now, pre, batch, push, n8nPosts, N8N_WEBHOOK_URL, client>>

\* SELECT * FROM students WHERE student_id = $1, then the logic gate
CheckinSelectStudent(i) ==
    LET r == inflight[i]
    IN  /\ r.op = "daily-checkin" /\ r.pc = "select_student"
        /\ inflight' = [inflight EXCEPT ![i] =
              IF r.body.student_id \notin DOMAIN students
                 THEN Reject(r, 404, "Student not found")
                 ELSE [r EXCEPT !.pc = "insert_log",
                                !.passed = LogicGate(r.body.quiz_score,
                                                     r.body.focus_minutes,
                                                     r.body.tab_switches)]]
        /\ UNCHANGED <<store, now, pre, batch, push, n8nPosts, N8N_WEBHOOK_URL, client>>

\* an insert that keeps one row per student: a student's earlier row is
\* overwritten
CheckinInsertLogUpsert(i) ==
    LET r == inflight[i]
        mine == {k \in DOMAIN daily_logs : daily_logs[k].student_id = r.body.student_id}
        id == IF mine = {} THEN Len(daily_logs) + 1 ELSE CHOOSE k \in mine : TRUE
    IN  /\ r.op = "daily-checkin" /\ r.pc = "insert_log"
        /\ daily_logs' = IF mine = {}
                            THEN Append(daily_logs, NewLog(id, r.body, r.passed, now))
                            ELSE [daily_logs EXCEPT ![id] = NewLog(id, r.body, r.passed, now)]
        /\ inflight' = [inflight EXCEPT ![i] =
                           [r EXCEPT !.pc = "update_student", !.dailyLog = id]]
        /\ UNCHANGED <<students, interventions, now, pre, batch, push, n8nPosts,
                       N8N_WEBHOOK_URL, client>>

\* INSERT INTO daily_logs ... RETURNING *
CheckinInsertLog(i) ==
    LET r == inflight[i]
        id == Len(daily_logs) + 1
    IN  /\ r.op = "daily-checkin" /\ r.pc = "insert_log"
        /\ daily_logs' = Append(daily_logs, NewLog(id, r.body, r.passed, now))
        /\ inflight' = [inflight EXCEPT ![i] =
                           [r EXCEPT !.pc = "update_student", !.dailyLog = id]]
        /\ UNCHANGED <<students, interventions, now, pre, batch, push, n8nPosts,
                       N8N_WEBHOOK_URL, client>>

\* the status update without the branch on the verdict: every check-in
\* goes on to open a ticket
CheckinUpdateStudentNoBranch(i) ==
    LET r == inflight[i]
    IN  /\ r.op = "daily-checkin" /\ r.pc = "update_student"
        /\ students' = UpdateStudentStatus(students, r.body.student_id,
                                           IF r.passed THEN "on_track"
                                                       ELSE "needs_intervention")
        /\ inflight' = [inflight EXCEPT ![i] = [r EXCEPT !.pc = "insert_intervention"]]
        /\ UNCHANGED <<daily_logs, interventions, now, pre, batch, push, n8nPosts,
                       N8N_WEBHOOK_URL, client>>

\* UPDATE students SET status = 'on_track' | 'needs_intervention'; the
\* success path notifies and answers
CheckinUpdateStudent(i) ==
    LET r == inflight[i]
    IN  /\ r.op = "daily-checkin" /\ r.pc = "update_student"
        /\ IF r.passed
              THEN /\ students' = UpdateStudentStatus(students, r.body.student_id, "on_track")
                   /\ emitted' = notifyStudent(r.body.student_id, "status_update",
                                               StatusData("on_track"))
                   /\ inflight' = [inflight EXCEPT ![i] =
                                      Respond(r, "On Track", TRUE, NoId)]
              ELSE /\ students' = UpdateStudentStatus(students, r.body.student_id,
                                                      "needs_intervention")
                   /\ emitted' = emitted
                   /\ inflight' = [inflight EXCEPT ![i] =
                                      [r EXCEPT !.pc = "insert_intervention"]]
        /\ UNCHANGED <<daily_logs, interventions, now, pre, batch, connectedStudents,
                       sockets, n8nPosts, N8N_WEBHOOK_URL, client>>

\* the end of the failure path: notifyStudent and the response
CheckinFailed(r) ==
    Respond(r, "Pending Mentor Review", FALSE, r.intervention)

\* INSERT INTO interventions ... RETURNING *; then either the webhook call
\* is issued or, with no N8N_WEBHOOK_URL, the handler notifies and answers
CheckinInsertIntervention(i) ==
    LET r == inflight[i]
        id == Len(interventions) + 1
        r2 == [r EXCEPT !.intervention = id]
    IN  /\ r.op = "daily-checkin" /\ r.pc = "insert_intervention"
        /\ interventions' = Append(interventions,
                                   NewIntervention(id, r.body.student_id, r.dailyLog, now))
        /\ IF N8N_WEBHOOK_URL
              THEN /\ inflight' = [inflight EXCEPT ![i] = [r2 EXCEPT !.pc = "webhook"]]
                   /\ n8nPosts' = n8nPosts \cup {id}
                   /\ emitted' = emitted
              ELSE /\ inflight' = [inflight EXCEPT ![i] = CheckinFailed(r2)]
                   /\ n8nPosts' = n8nPosts
                   /\ emitted' = notifyStudent(r.body.student_id, "status_update",
                                               StatusData("needs_intervention"))
        /\ UNCHANGED <<students, daily_logs, now, pre, batch, connectedStudents,
                       sockets, N8N_WEBHOOK_URL, client>>

\* the handler after a rejected axios.post if the rejection reached the
\* handler's outer catch
WebhookUncaught(r, ok) ==
    IF ok
       THEN CheckinFailed([r EXCEPT !.webhook = "ok"])
       ELSE Reject([r EXCEPT !.webhook = "failed"], 500, "Internal server error")

\* the handler after axios.post settled: resolved (ok), or rejected by an
\* error, a timeout or a non-2xx answer; the inner catch only logs, and
\* both ways the handler goes on to notify and answer
WebhookSettled(r, ok) ==
    CheckinFailed([r EXCEPT !.webhook = IF ok THEN "ok" ELSE "failed"])

\* axios.post settles; the handler notifies and answers
CheckinWebhookSettled(i) ==
    LET r == inflight[i]
    IN  /\ r.op = "daily-checkin" /\ r.pc = "webhook"
        /\ \E ok \in BOOLEAN :
              inflight' = [inflight EXCEPT ![i] = WebhookSettled(r, ok)]
        /\ emitted' = notifyStudent(r.body.student_id, "status_update",
                                    StatusData("needs_intervention"))
        /\ UNCHANGED <<store, now, pre, batch, connectedStudents, sockets, n8nPosts,
                       N8N_WEBHOOK_URL, client>>

----------------------------------------------------------------------------
(* The serverless check-in function, api/daily-checkin.js *)

\* the function's only validation: the error it is rejected with, or NULL
ServerlessValidation(body) ==
    IF \/ body.student_id = NULL
       \/ body.quiz_score = Undefined
       \/ body.focus_minutes = Undefined
       THEN "Missing required fields: student_id, quiz_score, focus_minutes"
       ELSE NULL

\* CHECK (quiz_score >= 0 AND quiz_score <= 10), CHECK (focus_minutes >= 0)
\* of the daily_logs table
LogChecks(body) ==
    body.quiz_score >= 0 /\ body.quiz_score <= 10 /\ body.focus_minutes >= 0

\* the request arrives: destructuring, validation, and the SELECT is issued
ServerlessCheckin(i, body) ==
    LET r == [Idle EXCEPT !.op = "serverless-checkin", !.body = body]
    IN  /\ Len(daily_logs) < MaxLogs
        /\ Begin(i,
              IF ServerlessValidation(body) # NULL
                 THEN Reject(r, 400, ServerlessValidation(body))
                 ELSE [r EXCEPT !.pc = "select_student"])
        /\ UNCHANGED <<store, now, connectedStudents, sockets, N8N_WEBHOOK_URL, client>>

\* SELECT * FROM students WHERE student_id = $1, then the logic gate
ServerlessSelectStudent(i) ==
    LET r == inflight[i]
    IN  /\ r.op = "serverless-checkin" /\ r.pc = "select_student"
        /\ inflight' = [inflight EXCEPT ![i] =
              IF r.body.student_id \notin DOMAIN students
                 THEN Reject(r, 404, "Student not found")
                 ELSE [r EXCEPT !.pc = "insert_log",
                                !.passed = LogicGate(r.body.quiz_score,
                                                     r.body.focus_minutes,
                                                     r.body.tab_switches)]]
        /\ UNCHANGED <<store, now, pre, batch, push, n8nPosts, N8N_WEBHOOK_URL, client>>

\* INSERT INTO daily_logs ... RETURNING *.  The table has the CHECK
\* constraints when the schema file or api/index.js created it and has none
\* when this function's own initDatabase did; with them a row out of range
\* is refused and the catch answers 500.
ServerlessInsertLog(i) ==
    LET r == inflight[i]
        id == Len(daily_logs) + 1
    IN  /\ r.op = "serverless-checkin" /\ r.pc = "insert_log"
        /\ \E checked \in BOOLEAN :
              IF checked /\ ~LogChecks(r.body)
                 THEN /\ daily_logs' = daily_logs
                      /\ inflight' = [inflight EXCEPT ![i] =
                                         Reject(r, 500, "Internal server error")]
                 ELSE /\ daily_logs' = Append(daily_logs,
                                              NewLog(id, r.body, r.passed, now))
                      /\ inflight' = [inflight EXCEPT ![i] =
                                         [r EXCEPT !.pc = "update_student",
                                                   !.dailyLog = id]]
        /\ UNCHANGED <<students, interventions, now, pre, batch, push, n8nPosts,
                       N8N_WEBHOOK_URL, client>>

\* UPDATE students SET status = ...; the success path answers
ServerlessUpdateStudent(i) ==
    LET r == inflight[i]
    IN  /\ r.op = "serverless-checkin" /\ r.pc = "update_student"
        /\ IF r.passed
              THEN /\ students' = UpdateStudentStatus(students, r.body.student_id, "on_track")
                   /\ inflight' = [inflight EXCEPT ![i] =
                                      Respond(r, "On Track", TRUE, NoId)]
              ELSE /\ students' = UpdateStudentStatus(students, r.body.student_id,
                                                      "needs_intervention")
                   /\ inflight' = [inflight EXCEPT ![i] =
                                      [r EXCEPT !.pc = "insert_intervention"]]
        /\ UNCHANGED <<daily_logs, interventions, now, pre, batch, push, n8nPosts,
                       N8N_WEBHOOK_URL, client>>

\* INSERT INTO interventions ... RETURNING *; then the webhook call is
\* issued or, with no N8N_WEBHOOK_URL, the function answers
ServerlessInsertIntervention(i) ==
    LET r == inflight[i]
        id == Len(interventions) + 1
        r2 == [r EXCEPT !.intervention = id]
    IN  /\ r.op = "serverless-checkin" /\ r.pc = "insert_intervention"
        /\ interventions' = Append(interventions,
                                   NewIntervention(id, r.body.student_id, r.dailyLog, now))
        /\ IF N8N_WEBHOOK_URL
              THEN /\ inflight' = [inflight EXCEPT ![i] = [r2 EXCEPT !.pc = "webhook"]]
                   /\ n8nPosts' = n8nPosts \cup {id}
              ELSE /\ inflight' = [inflight EXCEPT ![i] = CheckinFailed(r2)]
                   /\ n8nPosts' = n8nPosts
        /\ UNCHANGED <<students, daily_logs, now, pre, batch, push, N8N_WEBHOOK_URL,
                       client>>

\* axios.post settles either way; the function answers
ServerlessWebhookSettled(i) ==
    LET r == inflight[i]
    IN  /\ r.op = "serverless-checkin" /\ r.pc = "webhook"
        /\ \E ok \in BOOLEAN :
              inflight' = [inflight EXCEPT ![i] = WebhookSettled(r, ok)]
        /\ UNCHANGED <<store, now, pre, batch, push, n8nPosts, N8N_WEBHOOK_URL, client>>

----------------------------------------------------------------------------
(* POST /api/assign-intervention *)

\* the request arrives: validation, and the UPDATE interventions is issued
AssignIntervention(i, body) ==
    LET r == [Idle EXCEPT !.op = "assign-intervention", !.body = body]
    IN  /\ Begin(i,
              IF body.student_id = NULL \/ body.remedial_task = NULL
                 THEN Reject(r, 400, "Missing required fields: student_id, remedial_task")
                 ELSE [r EXCEPT !.pc = "update_intervention"])
        /\ UNCHANGED <<store, now, connectedStudents, sockets, N8N_WEBHOOK_URL, client>>

\* UPDATE interventions SET status = 'assigned', ...
AssignUpdateIntervention(i) ==
    LET r == inflight[i]
    IN  /\ r.op = "assign-intervention" /\ r.pc = "update_intervention"
        /\ interventions' = UpdateAssigned(interventions, r.body, now)
        /\ inflight' = [inflight EXCEPT ![i] = [r EXCEPT !.pc = "update_student"]]
        /\ UNCHANGED <<students, daily_logs, now, pre, batch, push, n8nPosts,
                       N8N_WEBHOOK_URL, client>>

\* UPDATE students SET status = 'remedial'; notifyStudent; the response
AssignUpdateStudent(i) ==
    LET r == inflight[i]
    IN  /\ r.op = "assign-intervention" /\ r.pc = "update_student"
        /\ students' = UpdateStudentStatus(students, r.body.student_id, "remedial")
        /\ emitted' = notifyStudent(r.body.student_id, "intervention_assigned",
                                    [status |-> "remedial",
                                     remedial_task |-> r.body.remedial_task,
                                     mentor_email |-> r.body.mentor_email])
        /\ inflight' = [inflight EXCEPT ![i] = Respond(r, NULL, FALSE, NoId)]
        /\ UNCHANGED <<daily_logs, interventions, now, pre, batch, connectedStudents,
                       sockets, n8nPosts, N8N_WEBHOOK_URL, client>>

----------------------------------------------------------------------------
(* POST /api/complete-remedial *)

\* the request arrives: validation, and the UPDATE interventions is issued
CompleteRemedialBegins(i, body) ==
    LET r == [Idle EXCEPT !.op = "complete-remedial", !.body = body]
    IN  /\ Begin(i,
              IF body.student_id = NULL
                 THEN Reject(r, 400, "Missing student_id")
                 ELSE [r EXCEPT !.pc = "update_intervention"])
        /\ UNCHANGED <<store, now, connectedStudents, sockets, N8N_WEBHOOK_URL>>

\* a complete-remedial sent by anyone but the modelled page
CompleteRemedial(i, body) == CompleteRemedialBegins(i, body) /\ UNCHANGED client

\* UPDATE interventions SET status = 'completed', ...
CompleteUpdateIntervention(i) ==
    LET r == inflight[i]
    IN  /\ r.op = "complete-remedial" /\ r.pc = "update_intervention"
        /\ interventions' = UpdateCompleted(interventions, r.body, now)
        /\ inflight' = [inflight EXCEPT ![i] = [r EXCEPT !.pc = "update_student"]]
        /\ UNCHANGED <<students, daily_logs, now, pre, batch, push, n8nPosts,
                       N8N_WEBHOOK_URL, client>>

\* UPDATE students SET status = 'active'; notifyStudent; the response
CompleteUpdateStudent(i) ==
    LET r == inflight[i]
    IN  /\ r.op = "complete-remedial" /\ r.pc = "update_student"
        /\ students' = UpdateStudentStatus(students, r.body.student_id, "active")
        /\ emitted' = notifyStudent(r.body.student_id, "status_update",
                                    StatusData("active"))
        /\ inflight' = [inflight EXCEPT ![i] = Respond(r, "active", FALSE, NoId)]
        /\ UNCHANGED <<daily_logs, interventions, now, pre, batch, connectedStudents,
                       sockets, n8nPosts, N8N_WEBHOOK_URL, client>>

----------------------------------------------------------------------------
(* The store rejects a statement *)

QueryPcs == {"select_student", "insert_log", "update_student",
             "insert_intervention", "update_intervention",
             "select_intervention", "select_logs", "select_interventions"}

\* pool.query rejects: query() rethrows, the handler's catch answers 500
\* and the statement has no effect
QueryFails(i) ==
    LET r == inflight[i]
    IN  /\ r.pc \in QueryPcs
        /\ inflight' = [inflight EXCEPT ![i] = Reject(r, 500, "Internal server error")]
        /\ UNCHANGED <<store, now, pre, batch, push, n8nPosts, N8N_WEBHOOK_URL, client>>

----------------------------------------------------------------------------
(* GET /api/student/:studentId *)

\* the request arrives and the SELECT of the student is issued
GetStudentBegins(i, studentId) ==
    /\ Begin(i, [Idle EXCEPT !.op = "get-student", !.body.student_id = studentId,
                             !.pc = "select_student"])
    /\ UNCHANGED <<store, now, connectedStudents, sockets, N8N_WEBHOOK_URL>>

\* a status query sent by anyone but the modelled page
GetStudent(i, studentId) == GetStudentBegins(i, studentId) /\ UNCHANGED client

\* SELECT * FROM students WHERE student_id = $1; a student who is not
\* locked is answered at once, with intervention null
GetSelectStudent(i) ==
    LET r == inflight[i]
        s == r.body.student_id
    IN  /\ r.op = "get-student" /\ r.pc = "select_student"
        /\ inflight' = [inflight EXCEPT ![i] =
              IF s \notin DOMAIN students
                 THEN Reject(r, 404, "Student not found")
              ELSE IF students[s] \in {"needs_intervention", "remedial"}
                 THEN [r EXCEPT !.student = students[s], !.pc = "select_intervention"]
              ELSE Respond([r EXCEPT !.student = students[s]], students[s], FALSE, NoId)]
        /\ UNCHANGED <<store, now, pre, batch, push, n8nPosts, N8N_WEBHOOK_URL, client>>

\* the rows of SELECT * FROM interventions WHERE student_id = $1 AND status
\* IN ('pending', 'assigned') ORDER BY created_at DESC LIMIT 1: a row with
\* the latest created_at (any of them when several were created together)
LatestOpenTickets(tbl, s) ==
    {k \in DOMAIN tbl :
        /\ tbl[k].student_id = s /\ tbl[k].status \in {"pending", "assigned"}
        /\ \A j \in DOMAIN tbl :
              (tbl[j].student_id = s /\ tbl[j].status \in {"pending", "assigned"})
              => tbl[j].created_at <= tbl[k].created_at}

\* the SELECT of the current intervention, and the response
GetSelectIntervention(i) ==
    LET r == inflight[i]
        rows == LatestOpenTickets(interventions, r.body.student_id)
    IN  /\ r.op = "get-student" /\ r.pc = "select_intervention"
        /\ \E k \in (IF rows = {} THEN {NoId} ELSE rows) :
              inflight' = [inflight EXCEPT ![i] = Respond(r, r.student, FALSE, k)]
        /\ UNCHANGED <<store, now, pre, batch, push, n8nPosts, N8N_WEBHOOK_URL, client>>

----------------------------------------------------------------------------
(* GET /api/student/:studentId/history *)

LogLimit == 30              \* LIMIT 30
InterventionLimit == 10     \* LIMIT 10

\* a query with no LIMIT clause
NoLimit(q, n) == q

\* the first n elements of a sequence
Limit(q, n) == IF Len(q) <= n THEN q ELSE SubSeq(q, 1, n)

\* the orders in which ORDER BY created_at DESC can return the rows ids of
\* tbl: rows created together come in any order
RECURSIVE OrderByCreatedDesc(_, _)
OrderByCreatedDesc(tbl, ids) ==
    IF ids = {} THEN {<<>>}
    ELSE UNION { { <<k>> \o q : q \in OrderByCreatedDesc(tbl, ids \ {k}) } :
                 k \in {j \in ids : \A m \in ids :
                                        tbl[j].created_at >= tbl[m].created_at} }

\* the ids of the rows of tbl that belong to student s
RowsOf(tbl, s) == {k \in DOMAIN tbl : tbl[k].student_id = s}

\* the request arrives and the SELECT of the logs is issued
GetHistory(i, studentId) ==
    /\ Begin(i, [Idle EXCEPT !.op = "get-history", !.body.student_id = studentId,
                             !.pc = "select_logs"])
    /\ UNCHANGED <<store, now, connectedStudents, sockets, N8N_WEBHOOK_URL, client>>

\* SELECT * FROM daily_logs WHERE student_id = $1 ORDER BY created_at DESC LIMIT 30
HistorySelectLogs(i) ==
    LET r == inflight[i]
    IN  /\ r.op = "get-history" /\ r.pc = "select_logs"
        /\ \E q \in OrderByCreatedDesc(daily_logs, RowsOf(daily_logs, r.body.student_id)) :
              inflight' = [inflight EXCEPT ![i] =
                             [r EXCEPT !.logs = Limit(q, LogLimit),
                                       !.pc = "select_interventions"]]
        /\ UNCHANGED <<store, now, pre, batch, push, n8nPosts, N8N_WEBHOOK_URL, client>>

\* SELECT * FROM interventions WHERE student_id = $1 ORDER BY created_at DESC
\* LIMIT 10, and the response
HistorySelectInterventions(i) ==
    LET r == inflight[i]
    IN  /\ r.op = "get-history" /\ r.pc = "select_interventions"
        /\ \E q \in OrderByCreatedDesc(interventions,
                                        RowsOf(interventions, r.body.student_id)) :
              inflight' = [inflight EXCEPT ![i] =
                             [r EXCEPT !.pc = "done",
                                       !.res = [NoRes EXCEPT
                                                  !.code = 200,
                                                  !.logs = r.logs,
                                                  !.interventions =
                                                      Limit(q, InterventionLimit)]]]
        /\ UNCHANGED <<store, now, pre, batch, push, n8nPosts, N8N_WEBHOOK_URL, client>>

----------------------------------------------------------------------------
(* socket.io connections *)

\* io.on('connection')
Connect(sock) ==
    /\ sockets[sock] = "new"
    /\ sockets' = [sockets EXCEPT ![sock] = "open"]
    /\ UNCHANGED <<store, now, inflight, pre, batch, connectedStudents, emitted,
                   n8nPosts, N8N_WEBHOOK_URL, client>>

\* socket.on('register')
Register(sock, studentId) ==
    /\ sockets[sock] = "open"
    /\ connectedStudents' = MapSet(connectedStudents, studentId, sock)
    /\ UNCHANGED <<store, now, inflight, pre, batch, sockets, emitted, n8nPosts,
                   N8N_WEBHOOK_URL, client>>

\* the first entry of the map, whatever its value
FirstEntry(m, sock) == 1

\* the first entry, in iteration order, whose value is the socket
FirstEntryOf(m, sock) ==
    CHOOSE k \in DOMAIN m :
        /\ m[k].socketId = sock
        /\ \A j \in DOMAIN m : j < k => m[j].socketId # sock

\* the sequence without its k-th element
RemoveAt(m, k) ==
    [j \in 1 .. (Len(m) - 1) |-> IF j < k THEN m[j] ELSE m[j + 1]]

\* socket.on('disconnect'): delete the first matching entry, then break
Disconnect(sock) ==
    /\ sockets[sock] = "open"
    /\ sockets' = [sockets EXCEPT ![sock] = "closed"]
    /\ connectedStudents' =
          IF \E k \in DOMAIN connectedStudents : connectedStudents[k].socketId = sock
             THEN RemoveAt(connectedStudents, FirstEntryOf(connectedStudents, sock))
             ELSE connectedStudents
    /\ UNCHANGED <<store, now, inflight, pre, batch, emitted, n8nPosts,
                   N8N_WEBHOOK_URL, client>>

----------------------------------------------------------------------------
(* Time *)

Tick ==
    /\ now + TickHours <= MaxNow
    /\ now' = now + TickHours
    /\ UNCHANGED <<store, inflight, pre, batch, push, n8nPosts, N8N_WEBHOOK_URL, client>>

---------------------------------------------------------------------------------------------------------------------------------------------------
(* Request bodies *)

CheckinBody(s, in) ==
    [NoBody EXCEPT !.student_id = s, !.quiz_score = in[1],
                   !.focus_minutes = in[2], !.tab_switches = in[3]]

AssignBody(s, k, t, m) ==
    [NoBody EXCEPT !.student_id = s, !.intervention_id = k, !.remedial_task = t,
                   !.mentor_email = m]

CompleteBody(s, k) ==
    [NoBody EXCEPT !.student_id = s, !.intervention_id = k]

\* well-formed check-ins of every student_id, and one body for each way
\* validation can reject
CheckinBodies ==
    { CheckinBody(s, in) : s \in StudentIds \cup {UnknownStudent}, in \in ValidInputs }
    \cup { CheckinBody("123", in) : in \in InvalidInputs }
    \cup { CheckinBody(NULL, <<9, 90, 0>>) }

AssignBodies ==
    { AssignBody(s, k, t, m) :
        s \in StudentIds, k \in InterventionIds, t \in RemedialTasks, m \in MentorEmails }
    \cup { AssignBody(NULL, 1, "Read Ch.4", "m@x.com"),
           AssignBody("123", 1, NULL, "m@x.com") }

CompleteBodies ==
    { CompleteBody(s, k) : s \in StudentIds, k \in InterventionIds }
    \cup { CompleteBody(NULL, 1) }

\* the requests of one student, for the interleavings of concurrent handlers
OneStudentCheckins == { CheckinBody("123", in) : in \in ValidInputs }

OneStudentAssigns ==
    { AssignBody("123", k, "Read Ch.4", "m@x.com") : k \in InterventionIds \ {NoId} }

OneStudentCompletes == { CompleteBody("123", k) : k \in InterventionIds \ {NoId} }

\* check-ins on both sides of each threshold of the logic gate
GateInputs ==
    { <<q, f, t>> : q \in {0, 7, 8, 10}, f \in {60, 61}, t \in {2, 3} }

GateCheckins == { CheckinBody("123", in) : in \in GateInputs }

\* every kind of request of student "123", the rejected check-ins included
PushCheckins == { CheckinBody("123", in) : in \in ValidInputs \cup InvalidInputs }

\* well-formed check-ins of both students
SessionCheckins == { CheckinBody(s, in) : s \in StudentIds, in \in ValidInputs }

\* requests of both students and of an unknown one; assign and complete name
\* every ticket id, the other student's tickets included
TwoStudentCheckins ==
    { CheckinBody(s, in) : s \in StudentIds \cup {UnknownStudent}, in \in ValidInputs }

TwoStudentAssigns ==
    { AssignBody(s, k, "Read Ch.4", "m@x.com") : s \in StudentIds, k \in InterventionIds }

TwoStudentCompletes == { CompleteBody(s, k) : s \in StudentIds, k \in InterventionIds }

----------------------------------------------------------------------------
(* The student's page *)

STUDENT_ID == "123"

\* useState('active'), useState(null), useState(true); nothing requested yet
ClientInit ==
    [studentStatus |-> "active", intervention |-> NoId, loading |-> TRUE,
     mounted |-> FALSE, request |-> "none", slot |-> 0]

\* the page is waiting for the answer to this request, sent to handler i
Waiting(request, i) ==
    [client EXCEPT !.request = request, !.slot = i]

\* the answer the page is waiting for has come
Answered(request) ==
    /\ client.request = request
    /\ inflight[client.slot].pc = "done"

\* useEffect(() => { fetchStudentStatus() }, []) : once, when the page loads
ClientMount(i) ==
    /\ ~client.mounted
    /\ GetStudentBegins(i, STUDENT_ID)
    /\ client' = [Waiting("fetch", i) EXCEPT !.mounted = TRUE]

\* fetchStudentStatus after its await
ClientFetched ==
    LET res == inflight[client.slot].res
    IN  /\ Answered("fetch")
        /\ client' = IF res.code = 200
                         THEN [Waiting("none", 0) EXCEPT
                                 !.studentStatus = res.status,
                                 !.intervention = res.intervention_id,
                                 !.loading = FALSE]
                         ELSE [Waiting("none", 0) EXCEPT !.loading = FALSE]
        /\ UNCHANGED <<store, now, inflight, pre, batch, push, n8nPosts,
                       N8N_WEBHOOK_URL>>

\* submitDailyCheckin: the form of the active screen, after the page's own
\* checks of the score and the focus time
ClientSubmitDailyCheckin(i, in) ==
    /\ client.studentStatus = "active" /\ ~client.loading
    /\ in[1] >= 0 /\ in[1] <= 10 /\ in[2] # 0
    /\ DailyCheckinBegins(i, CheckinBody(STUDENT_ID, in))
    /\ client' = [Waiting("checkin", i) EXCEPT !.loading = TRUE]

\* submitDailyCheckin after its await
ClientCheckinAnswered ==
    LET res == inflight[client.slot].res
    IN  /\ Answered("checkin")
        /\ client' = IF res.code = 200
                         THEN [Waiting("none", 0) EXCEPT
                                 !.studentStatus = IF res.passed THEN "on_track"
                                                   ELSE "needs_intervention",
                                 !.loading = FALSE]
                         ELSE [Waiting("none", 0) EXCEPT !.loading = FALSE]
        /\ UNCHANGED <<store, now, inflight, pre, batch, push, n8nPosts,
                       N8N_WEBHOOK_URL>>

\* completeRemedialTask: the button of the remedial screen
ClientCompleteRemedialTask(i) ==
    /\ client.studentStatus = "remedial" /\ client.intervention # NoId
    /\ ~client.loading
    /\ CompleteRemedialBegins(i, CompleteBody(STUDENT_ID, client.intervention))
    /\ client' = [Waiting("complete", i) EXCEPT !.loading = TRUE]

\* completeRemedialTask after its await
ClientCompleteAnswered ==
    LET res == inflight[client.slot].res
    IN  /\ Answered("complete")
        /\ client' = IF res.code = 200
                         THEN [Waiting("none", 0) EXCEPT
                                 !.studentStatus = "active",
                                 !.intervention = NoId,
                                 !.loading = FALSE]
                         ELSE [Waiting("none", 0) EXCEPT !.loading = FALSE]
        /\ UNCHANGED <<store, now, inflight, pre, batch, push, n8nPosts,
                       N8N_WEBHOOK_URL>>

\* "Start New Session" on the on_track screen: the page resets itself, then
\* posts complete-remedial with intervention_id null and ignores the answer
ClientStartNewSession(i) ==
    /\ client.studentStatus = "on_track" /\ ~client.loading
    /\ CompleteRemedialBegins(i, CompleteBody(STUDENT_ID, NoId))
    /\ client' = [client EXCEPT !.studentStatus = "active"]

----------------------------------------------------------------------------
(* Specifications *)

Init ==
    /\ students = [s \in StudentIds |-> "active"]
    /\ daily_logs = <<>>
    /\ interventions = <<>>
    /\ now = 0
    /\ inflight = [i \in Slots |-> Idle]
    /\ pre = [students |-> [s \in StudentIds |-> "active"], daily_logs |-> <<>>,
              interventions |-> <<>>]
    /\ batch = 0
    /\ connectedStudents = <<>>
    /\ sockets = [s \in SocketIds |-> "new"]
    /\ emitted = {}
    /\ n8nPosts = {}
    /\ N8N_WEBHOOK_URL \in BOOLEAN
    /\ client = ClientInit

\* a daily-checkin handler resumes after its awaited statement
ResumeCheckin ==
    \E i \in Slots :
        \/ CheckinSelectStudent(i)
        \/ CheckinInsertLog(i)
        \/ CheckinUpdateStudent(i)
        \/ CheckinInsertIntervention(i)
        \/ CheckinWebhookSettled(i)

\* an assign-intervention or complete-remedial handler resumes
ResumeCallback ==
    \E i \in Slots :
        \/ AssignUpdateIntervention(i)
        \/ AssignUpdateStudent(i)
        \/ CompleteUpdateIntervention(i)
        \/ CompleteUpdateStudent(i)

\* a statement of a daily-checkin handler completes
CheckinQuery ==
    \E i \in Slots :
        \/ CheckinSelectStudent(i)
        \/ CheckinInsertLog(i)
        \/ CheckinUpdateStudent(i)
        \/ CheckinInsertIntervention(i)

\* a handler resumes after its awaited statement
Resume == ResumeCheckin \/ ResumeCallback

\* a request arrives
Arrive ==
    \E i \in Slots :
        \/ \E b \in CheckinBodies : DailyCheckin(i, b)
        \/ \E b \in AssignBodies : AssignIntervention(i, b)
        \/ \E b \in CompleteBodies : CompleteRemedial(i, b)

\* a request of student "123" arrives
ArriveOneStudent ==
    \E i \in Slots :
        \/ \E b \in OneStudentCheckins : DailyCheckin(i, b)
        \/ \E b \in OneStudentAssigns : AssignIntervention(i, b)
        \/ \E b \in OneStudentCompletes : CompleteRemedial(i, b)

\* a check-in arrives
ArriveCheckin == \E i \in Slots : \E b \in CheckinBodies : DailyCheckin(i, b)

\* some statement of a suspended handler is rejected by the store
Fault == \E i \in Slots : QueryFails(i)

\* requests are handled concurrently, their statements interleaved
Next == ArriveOneStudent \/ Resume

Spec == Init /\ [][Next]_vars

\* requests are handled one at a time
SerialNext == (Quiescent /\ Arrive) \/ Resume

SerialSpec == Init /\ [][SerialNext]_vars

\* one at a time, and the store may reject any statement
FaultNext == (Quiescent /\ Arrive) \/ Resume \/ Fault

FaultSpec == Init /\ [][FaultNext]_vars

\* check-ins only, one at a time, while time passes: tickets are created and
\* no assign-intervention or complete-remedial request is ever made.  A
\* suspended handler is eventually resumed and the clock keeps running; the
\* server has no timer or background job, so nothing else ever runs.
ClockNext == (Quiescent /\ ArriveCheckin) \/ ResumeCheckin \/ Tick

ClockSpec == Init /\ [][ClockNext]_vars /\ WF_vars(ResumeCheckin) /\ WF_vars(Tick)

\* check-ins only, one at a time.  The store completes every statement it
\* is given; the n8n endpoint is outside the server and may never answer, and
\* axios.post is called with no timeout option, so nothing makes the call
\* settle.
WebhookNext == (Quiescent /\ ArriveCheckin) \/ ResumeCheckin

WebhookSpec == Init /\ [][WebhookNext]_vars /\ WF_vars(CheckinQuery)

\* check-ins around the thresholds of the logic gate, one at a time
ArriveGate == \E i \in Slots : \E b \in GateCheckins : DailyCheckin(i, b)

GateNext == (Quiescent /\ ArriveGate) \/ ResumeCheckin

GateSpec == Init /\ [][GateNext]_vars

\* a request of student "123" arrives, well-formed or not
ArrivePush ==
    \E i \in Slots :
        \/ \E b \in PushCheckins : DailyCheckin(i, b)
        \/ \E b \in OneStudentAssigns : AssignIntervention(i, b)
        \/ \E b \in OneStudentCompletes : CompleteRemedial(i, b)

\* a client connects, registers as student "123" or goes away
SocketStep ==
    \E sock \in SocketIds :
        \/ Connect(sock)
        \/ Register(sock, "123")
        \/ Disconnect(sock)

\* requests handled one at a time while clients come and go
PushNext == (Quiescent /\ ArrivePush) \/ Resume \/ SocketStep

PushSpec == Init /\ [][PushNext]_vars

\* requests that publish and requests that are rejected: check-ins of
\* student "123", one out of range, one of a student with no row, and the
\* callbacks for "123" and for the student with no row
PublishCheckins ==
    { CheckinBody("123", in) : in \in ValidInputs \cup {<<11, 90, 0>>} }
    \cup { CheckinBody(UnknownStudent, <<5, 30, 1>>) }

PublishAssigns ==
    { AssignBody(s, 1, "Read Ch.4", "m@x.com") : s \in {"123", UnknownStudent} }
    \cup { AssignBody("123", 1, NULL, "m@x.com") }

PublishCompletes ==
    { CompleteBody(s, 1) : s \in {"123", UnknownStudent} } \cup { CompleteBody(NULL, 1) }

ArrivePublish ==
    \E i \in Slots :
        \/ \E b \in PublishCheckins : DailyCheckin(i, b)
        \/ \E b \in PublishAssigns : AssignIntervention(i, b)
        \/ \E b \in PublishCompletes : CompleteRemedial(i, b)

\* a client connects, registers under a student_id, with a row or without,
\* or goes away
PublishStep ==
    \E sock \in SocketIds :
        \/ Connect(sock)
        \/ \E s \in {"123", UnknownStudent} : Register(sock, s)
        \/ Disconnect(sock)

\* requests handled one at a time while clients come and go
PublishNext == (Quiescent /\ ArrivePublish) \/ Resume \/ PublishStep

PublishSpec == Init /\ [][PublishNext]_vars

\* a check-in of either student arrives
ArriveSession == \E i \in Slots : \E b \in SessionCheckins : DailyCheckin(i, b)

\* a client connects, registers under either student_id or goes away
SessionStep ==
    \E sock \in SocketIds :
        \/ Connect(sock)
        \/ \E s \in StudentIds : Register(sock, s)
        \/ Disconnect(sock)

\* check-ins of two students, one at a time, while clients come and go
SessionNext == (Quiescent /\ ArriveSession) \/ ResumeCheckin \/ SessionStep

SessionSpec == Init /\ [][SessionNext]_vars

\* a status or history query of student "123" or of an unknown student
ArriveQuery ==
    \E i \in Slots : \E s \in {"123", UnknownStudent} :
        GetStudent(i, s) \/ GetHistory(i, s)

\* a GET handler resumes after its awaited statement
ResumeQuery ==
    \E i \in Slots :
        \/ GetSelectStudent(i)
        \/ GetSelectIntervention(i)
        \/ HistorySelectLogs(i)
        \/ HistorySelectInterventions(i)

\* requests and queries of one student, handled one at a time
QueryNext == (Quiescent /\ (ArrivePush \/ ArriveQuery)) \/ Resume \/ ResumeQuery

QuerySpec == Init /\ [][QueryNext]_vars

\* a request of either student, or a check-in of an unknown one, arrives
ArriveTwoStudents ==
    \E i \in Slots :
        \/ \E b \in TwoStudentCheckins : DailyCheckin(i, b)
        \/ \E b \in TwoStudentAssigns : AssignIntervention(i, b)
        \/ \E b \in TwoStudentCompletes : CompleteRemedial(i, b)

\* requests of two students, handled one at a time
TwoStudentNext == (Quiescent /\ ArriveTwoStudents) \/ Resume

TwoStudentSpec == Init /\ [][TwoStudentNext]_vars

\* the page sends a request
ClientRequest ==
    \E i \in Slots :
        \/ ClientMount(i)
        \/ \E in \in ValidInputs : ClientSubmitDailyCheckin(i, in)
        \/ ClientCompleteRemedialTask(i)
        \/ ClientStartNewSession(i)

\* the page takes the answer it is waiting for
ClientAnswered == ClientFetched \/ ClientCheckinAnswered \/ ClientCompleteAnswered

\* a handler of a request of the page or of the mentor resumes
ResumeClient ==
    \/ Resume
    \/ \E i \in Slots : GetSelectStudent(i) \/ GetSelectIntervention(i)

\* One page of student "123", loaded once and never reloaded, next to the
\* requests that reach the server from elsewhere (the mentor's assignments
\* through n8n, the student's other devices); requests are handled one at a
\* time and a request is sent only after the page took the answer it was
\* waiting for.  The server runs every statement it is given and the page
\* runs every continuation.
ClientNext ==
    \/ (Quiescent /\ client.request = "none" /\ (ClientRequest \/ ArriveOneStudent))
    \/ ResumeClient
    \/ ClientAnswered

ClientSpec ==
    Init /\ [][ClientNext]_vars /\ WF_vars(ResumeClient) /\ WF_vars(ClientAnswered)

\* The k-th of the check-ins already handled, one at a time: two failing
\* ones, then a passing one, and so on; the other-th is student "456"'s.
PastBody(k, other) ==
    CheckinBody(IF k = other THEN "456" ELSE "123",
                IF k % 3 = 0 THEN <<9, 90, 0>> ELSE <<5, 30, 1>>)

PastPassed(k, other) ==
    LET b == PastBody(k, other)
    IN  LogicGate(b.quiz_score, b.focus_minutes, b.tab_switches)

\* CURRENT_TIMESTAMP of the k-th check-in: an hour after the one before,
\* except the tie-th, handled within the hour of the one before it
PastTime(k, tie) == IF tie # 0 /\ k >= tie THEN k - 1 ELSE k

\* the daily_logs table after n check-ins
PastLogs(n, other, tie) ==
    [k \in 1 .. n |-> NewLog(k, PastBody(k, other), PastPassed(k, other),
                             PastTime(k, tie))]

\* the check-in that opened ticket j: the j-th failing one
PastTrigger(j) == CHOOSE k \in 1 .. (2 * j) : k % 3 # 0 /\ k - (k \div 3) = j

\* the interventions table after n check-ins: one ticket for each failing one
PastInterventions(n, other, tie) ==
    [j \in 1 .. (n - (n \div 3)) |->
        NewIntervention(j, PastBody(PastTrigger(j), other).student_id,
                        PastTrigger(j), PastTime(PastTrigger(j), tie))]

\* the students table after n check-ins: the status the student's last
\* check-in wrote
PastStudents(n, other) ==
    [s \in StudentIds |->
        LET mine == {k \in 1 .. n : PastBody(k, other).student_id = s}
            last == CHOOSE k \in mine : \A m \in mine : m <= k
        IN  IF mine = {} THEN "active"
            ELSE IF PastPassed(last, other) THEN "on_track"
            ELSE "needs_intervention"]

\* the server with up to MaxHistory check-ins behind it
HistoryInit ==
    \E n \in 0 .. MaxHistory : \E other \in 0 .. n : \E tie \in {0} \cup (2 .. n) :
        /\ students = PastStudents(n, other)
        /\ daily_logs = PastLogs(n, other, tie)
        /\ interventions = PastInterventions(n, other, tie)
        /\ now = IF n = 0 THEN 0 ELSE PastTime(n, tie)
        /\ inflight = [i \in Slots |-> Idle]
        /\ pre = [students |-> PastStudents(n, other),
                  daily_logs |-> PastLogs(n, other, tie),
                  interventions |-> PastInterventions(n, other, tie)]
        /\ batch = 0
        /\ connectedStudents = <<>>
        /\ sockets = [s \in SocketIds |-> "new"]
        /\ emitted = {}
        /\ n8nPosts = {}
        /\ N8N_WEBHOOK_URL = TRUE
        /\ client = ClientInit

ArriveHistory == \E i \in Slots : \E s \in StudentIds : GetHistory(i, s)

ResumeHistory ==
    \E i \in Slots : HistorySelectLogs(i) \/ HistorySelectInterventions(i)

\* history queries, one at a time, over a store with a long history
HistoryNext == (Quiescent /\ ArriveHistory) \/ ResumeHistory

HistorySpec == HistoryInit /\ [][HistoryNext]_vars

\* check-ins of a student with a row and of one without, within range, out
\* of range and with a field missing
EquivCheckins ==
    { CheckinBody(s, in) : s \in {"123", UnknownStudent},
                           in \in ValidInputs \cup InvalidInputs }
    \cup { CheckinBody(NULL, <<9, 90, 0>>) }

\* a check-in reaches the server or the serverless function
ArriveEquiv ==
    \E i \in Slots : \E b \in EquivCheckins :
        DailyCheckin(i, b) \/ ServerlessCheckin(i, b)

\* the serverless function resumes after its awaited statement
ResumeServerless ==
    \E i \in Slots :
        \/ ServerlessSelectStudent(i)
        \/ ServerlessInsertLog(i)
        \/ ServerlessUpdateStudent(i)
        \/ ServerlessInsertIntervention(i)
        \/ ServerlessWebhookSettled(i)

\* check-ins handled one at a time, each by either of the two deployments,
\* over one database
EquivNext == (Quiescent /\ ArriveEquiv) \/ ResumeCheckin \/ ResumeServerless

EquivSpec == Init /\ [][EquivNext]_vars

----------------------------------------------------------------------------
(* Properties *)

OpenStatuses == {"pending", "assigned"}

\* ids of the student's tickets that are pending or assigned
OpenTickets(tbl, s) ==
    { k \in DOMAIN tbl : tbl[k].student_id = s /\ tbl[k].status \in OpenStatuses }

\* the request names a ticket that existed, for that student, when it arrived
NamesOwnTicket(r) ==
    /\ r.body.intervention_id \in DOMAIN pre.interventions
    /\ pre.interventions[r.body.intervention_id].student_id = r.body.student_id

\* a finished handler of the given operation whose body passed validation
Handled(r, op) == r.op = op /\ r.pc = "done" /\ r.res.code # 400

\* the tables are as they were when the batch began
StoreUntouched ==
    /\ students = pre.students
    /\ daily_logs = pre.daily_logs
    /\ interventions = pre.interventions

\* C1: with requests handled one at a time and no storage failure, whenever
\* no request is being handled every student has at most one ticket that is
\* pending or assigned.
C1_AtMostOneOpenTicket ==
    Quiescent => \A s \in StudentIds : Cardinality(OpenTickets(interventions, s)) <= 1

\* C2: two failing check-ins of the same student that were in flight at the
\* same time have, once both are answered, created exactly one ticket between
\* them.
C2_ConcurrentFailuresOneTicket ==
    \A i, j \in Slots :
        ( /\ i < j
          /\ batch = 2
          /\ Handled(inflight[i], "daily-checkin") /\ inflight[i].res.code = 200
          /\ Handled(inflight[j], "daily-checkin") /\ inflight[j].res.code = 200
          /\ ~inflight[i].res.passed /\ ~inflight[j].res.passed
          /\ inflight[i].body.student_id = inflight[j].body.student_id )
        => Cardinality(DOMAIN interventions \ DOMAIN pre.interventions) = 1

\* C3: an assign-intervention for a student and ticket that an earlier
\* assign-intervention already assigned is answered with a conflict and
\* leaves the student's status as it was, whatever ran in between.
C3_SecondAssignConflicts ==
    \A i \in Slots :
        LET r == inflight[i] IN
        ( /\ Handled(r, "assign-intervention")
          /\ NamesOwnTicket(r)
          /\ pre.interventions[r.body.intervention_id].assigned_at # NoTime )
        => /\ r.res.code = 409
           /\ students[r.body.student_id] = pre.students[r.body.student_id]

\* C4: an assign-intervention on a ticket that is assigned, completed or
\* expired is answered with a conflict and leaves the ticket row (status,
\* task, mentor, assignment time) and the student's status as they were.
C4_AssignNonPendingRejected ==
    \A i \in Slots :
        LET r == inflight[i] IN
        ( /\ Handled(r, "assign-intervention")
          /\ NamesOwnTicket(r)
          /\ pre.interventions[r.body.intervention_id].status
                \in {"assigned", "completed", "expired"} )
        => /\ r.res.code = 409
           /\ interventions[r.body.intervention_id]
                 = pre.interventions[r.body.intervention_id]
           /\ students[r.body.student_id] = pre.students[r.body.student_id]

\* C5: an assign-intervention naming a ticket that does not exist, or that
\* belongs to another student, is rejected and changes no ticket and no
\* student's status.
C5_AssignUnknownTicketRejected ==
    \A i \in Slots :
        LET r == inflight[i] IN
        (Handled(r, "assign-intervention") /\ ~NamesOwnTicket(r))
        => /\ r.res.code \notin {0, 200}
           /\ interventions = pre.interventions
           /\ students = pre.students

\* C6: a complete-remedial whose ticket is missing, null, of another student
\* or not assigned is rejected and leaves the student's status and every
\* ticket unchanged (the student becomes active only through a ticket of
\* theirs that is assigned).
C6_CompleteNeedsAssignedTicket ==
    \A i \in Slots :
        LET r == inflight[i] IN
        ( /\ Handled(r, "complete-remedial")
          /\ ~( /\ NamesOwnTicket(r)
                /\ pre.interventions[r.body.intervention_id].status = "assigned" ) )
        => /\ r.res.code \notin {0, 200}
           /\ interventions = pre.interventions
           /\ students = pre.students

\* C7: no step takes a student from needs_intervention to any status other
\* than remedial.
C7_NeedsInterventionOnlyToRemedial ==
    [][ \A s \in StudentIds :
           students[s] = "needs_intervention"
           => students'[s] \in {"needs_intervention", "remedial"} ]_vars

\* the tables after a whole assign-intervention / complete-remedial handler
AssignWhole(st, body) ==
    [students |-> UpdateStudentStatus(st.students, body.student_id, "remedial"),
     interventions |-> UpdateAssigned(st.interventions, body, now)]

CompleteWhole(st, body) ==
    [students |-> UpdateStudentStatus(st.students, body.student_id, "active"),
     interventions |-> UpdateCompleted(st.interventions, body, now)]

\* (ticket status, student status) of a store
Statuses(st, body) ==
    <<st.interventions[body.intervention_id].status, st.students[body.student_id]>>

\* C8: an assign-intervention and a complete-remedial for the same student
\* and ticket that ran concurrently leave the ticket status and the student
\* status as one of the two serial orders would.
C8_AssignCompleteSerializable ==
    \A i, j \in Slots :
        LET a == inflight[i]
            c == inflight[j]
            st == [students |-> pre.students, interventions |-> pre.interventions]
        IN
        ( /\ batch = 2
          /\ Handled(a, "assign-intervention") /\ a.res.code = 200
          /\ Handled(c, "complete-remedial") /\ c.res.code = 200
          /\ a.body.student_id = c.body.student_id
          /\ a.body.intervention_id = c.body.intervention_id
          /\ NamesOwnTicket(a) )
        => Statuses([students |-> students, interventions |-> interventions], a.body)
              \in { Statuses(CompleteWhole(AssignWhole(st, a.body), c.body), a.body),
                    Statuses(AssignWhole(CompleteWhole(st, c.body), a.body), a.body) }

\* C9: a request that ends in a storage failure has had no effect on the
\* check-in logs, the students and the tickets.
C9_StorageFailureHasNoEffect ==
    \A i \in Slots :
        (inflight[i].pc = "done" /\ inflight[i].res.code = 500) => StoreUntouched

\* the ticket exists and is pending or assigned
TicketOpen(k) ==
    k \in DOMAIN interventions /\ interventions[k].status \in OpenStatuses

\* the ticket is pending or assigned and its expires_at has passed
TicketOverdue(k) == TicketOpen(k) /\ now > interventions[k].expires_at

\* C10: every ticket that is created and for which no assign-intervention or
\* complete-remedial is ever made leaves {pending, assigned} once its expiry
\* deadline has passed: no ticket stays pending or assigned forever.
C10_UnresolvedTicketExpires ==
    \A k \in 1 .. MaxLogs : TicketOverdue(k) ~> ~TicketOpen(k)

LockedStatuses == {"needs_intervention", "remedial"}

\* the student is locked and a ticket of theirs has passed its expires_at
StudentLockedOverdue(s) ==
    /\ students[s] \in LockedStatuses
    /\ \E k \in DOMAIN interventions :
          interventions[k].student_id = s /\ now > interventions[k].expires_at

\* C11: a student in needs_intervention or remedial whose ticket's expiry
\* deadline has passed eventually reaches another status by the server's own
\* steps, with no client or mentor request.
C11_LockedStudentReleased ==
    \A s \in StudentIds : StudentLockedOverdue(s) ~> (students[s] \notin LockedStatuses)

\* a check-in with failing figures is being handled
FailingCheckinInFlight(i) ==
    /\ inflight[i].op = "daily-checkin"
    /\ inflight[i].pc \notin {"idle", "done"}
    /\ ~LogicGate(inflight[i].body.quiz_score, inflight[i].body.focus_minutes,
                  inflight[i].body.tab_switches)

\* C12: a failing check-in is always eventually answered, even when the n8n
\* endpoint never answers the webhook call.
C12_FailingCheckinAnswered ==
    \A i \in Slots : FailingCheckinInFlight(i) ~> (inflight[i].pc = "done")

\* a failing check-in has been answered after its webhook call was rejected
WebhookFailedDone(r) ==
    r.op = "daily-checkin" /\ r.pc = "done" /\ r.webhook = "failed"

\* C13: when the webhook call of a failing check-in fails, the student is
\* in needs_intervention, the new ticket is pending, the log is written and
\* the caller gets the normal failed-verdict answer with the ticket id.
C13_WebhookFailureNotFatal ==
    \A i \in Slots :
        LET r == inflight[i] IN
        WebhookFailedDone(r)
        => /\ students[r.body.student_id] = "needs_intervention"
           /\ r.intervention \in DOMAIN interventions
           /\ r.intervention \notin DOMAIN pre.interventions
           /\ interventions[r.intervention].status = "pending"
           /\ interventions[r.intervention].student_id = r.body.student_id
           /\ r.dailyLog \in DOMAIN daily_logs
           /\ r.dailyLog \notin DOMAIN pre.daily_logs
           /\ daily_logs[r.dailyLog].passed = FALSE
           /\ r.res.code = 200
           /\ r.res.status = "Pending Mentor Review"
           /\ r.res.passed = FALSE
           /\ r.res.intervention_id = r.intervention

C13_Witness ==
    \E i \in Slots :
        /\ WebhookFailedDone(inflight[i])
        /\ inflight[i].res.intervention_id \in DOMAIN interventions
        /\ interventions[inflight[i].res.intervention_id].status = "pending"

\* a check-in that got past validation and the student lookup has been answered
CheckinAnswered(r) == r.op = "daily-checkin" /\ r.pc = "done" /\ r.res.code = 200

OutOfRange(body) ==
    /\ body.student_id # NULL
    /\ body.quiz_score # Undefined
    /\ body.focus_minutes # Undefined
    /\ (body.quiz_score < 0 \/ body.quiz_score > 10 \/ body.focus_minutes < 0)

\* C16: a check-in whose quiz_score is outside 0..10 or whose focus_minutes
\* is negative is answered 400 at once: no log row, no ticket, the student's
\* status as before, no webhook call and no push event.
C16_OutOfRangeRejected ==
    \A i \in Slots :
        LET r == inflight[i] IN
        (r.op = "daily-checkin" /\ OutOfRange(r.body))
        => /\ r.pc = "done"
           /\ r.res.code = 400
           /\ r.res.error # NULL
           /\ StoreUntouched
           /\ n8nPosts = {}
           /\ emitted = {}

\* an out-of-range check-in has been rejected while the student was locked,
\* had a registered session and the webhook was configured
C16_Witness ==
    \E i \in Slots :
        /\ inflight[i].op = "daily-checkin" /\ OutOfRange(inflight[i].body)
        /\ inflight[i].res.code = 400
        /\ students[inflight[i].body.student_id] = "needs_intervention"
        /\ MapGet(connectedStudents, inflight[i].body.student_id) # NULL
        /\ N8N_WEBHOOK_URL

\* a check-in whose verdict was a failure has been answered
FailedCheckinAnswered(r) == CheckinAnswered(r) /\ ~r.passed

\* what a failing check-in, handled alone, leaves in the store and answers
FailedCheckinEffects(r) ==
    /\ Len(daily_logs) = Len(pre.daily_logs) + 1
    /\ r.dailyLog = Len(daily_logs)
    /\ daily_logs[r.dailyLog].student_id = r.body.student_id
    /\ ~daily_logs[r.dailyLog].passed
    /\ \A k \in DOMAIN pre.daily_logs : daily_logs[k] = pre.daily_logs[k]
    /\ students[r.body.student_id] = "needs_intervention"
    /\ Len(interventions) = Len(pre.interventions) + 1
    /\ r.intervention = Len(interventions)
    /\ \A k \in DOMAIN pre.interventions : interventions[k] = pre.interventions[k]
    /\ interventions[r.intervention].student_id = r.body.student_id
    /\ interventions[r.intervention].status = "pending"
    /\ interventions[r.intervention].expires_at =
          interventions[r.intervention].created_at + 12
    /\ interventions[r.intervention].created_at >= daily_logs[r.dailyLog].created_at
    /\ interventions[r.intervention].created_at <= now
    /\ interventions[r.intervention].trigger_log_id = r.dailyLog
    /\ r.res.intervention_id = r.intervention
    /\ ~r.res.passed

\* C17 as stated: a failing check-in of an existing student writes one log,
\* sets the student to needs_intervention, creates exactly one pending ticket
\* expiring 12 hours after its creation and referring to that log, makes one
\* webhook call and returns the ticket's id.
C17_FailedCheckinEscalates ==
    \A i \in Slots :
        FailedCheckinAnswered(inflight[i])
        => /\ FailedCheckinEffects(inflight[i])
           /\ n8nPosts = {inflight[i].intervention}

\* C17, amended: the same, with one webhook call when N8N_WEBHOOK_URL is
\* configured and none when it is not.
C17_FailedCheckinEscalatesIfConfigured ==
    \A i \in Slots :
        FailedCheckinAnswered(inflight[i])
        => /\ FailedCheckinEffects(inflight[i])
           /\ n8nPosts = IF N8N_WEBHOOK_URL THEN {inflight[i].intervention} ELSE {}

\* a second failing check-in has been answered after the clock moved, and
\* its ticket was posted to the webhook
C17_Witness ==
    \E i \in Slots :
        /\ FailedCheckinAnswered(inflight[i])
        /\ inflight[i].intervention = 2
        /\ interventions[2].created_at > 0
        /\ interventions[2].expires_at > 12
        /\ n8nPosts = {2}

\* C18: a passing check-in writes one log, sets the student to on_track,
\* creates no ticket, changes no ticket and makes no webhook call.
C18_PassedCheckinOpensNoTicket ==
    \A i \in Slots :
        LET r == inflight[i] IN
        (r.op = "daily-checkin" /\ r.pc = "done" /\ r.passed)
        => /\ r.res.code = 200 /\ r.res.passed /\ r.res.status = "On Track"
           /\ Len(daily_logs) = Len(pre.daily_logs) + 1
           /\ r.dailyLog = Len(daily_logs)
           /\ daily_logs[r.dailyLog].passed
           /\ daily_logs[r.dailyLog].student_id = r.body.student_id
           /\ \A k \in DOMAIN pre.daily_logs : daily_logs[k] = pre.daily_logs[k]
           /\ students[r.body.student_id] = "on_track"
           /\ interventions = pre.interventions
           /\ n8nPosts = {}

\* a passing check-in has been answered while an earlier ticket is open and
\* the webhook is configured
C18_Witness ==
    \E i \in Slots :
        /\ inflight[i].op = "daily-checkin" /\ inflight[i].pc = "done"
        /\ inflight[i].passed
        /\ students[inflight[i].body.student_id] = "on_track"
        /\ OpenTickets(interventions, inflight[i].body.student_id) # {}
        /\ N8N_WEBHOOK_URL

\* when request r arrived, the ticket it names belonged to its student and
\* had this status
NamedTicketWas(r, status) ==
    /\ r.body.intervention_id \in DOMAIN pre.interventions
    /\ pre.interventions[r.body.intervention_id].student_id = r.body.student_id
    /\ pre.interventions[r.body.intervention_id].status = status

\* handler i runs its last statements and answers
Finishes(i, op) ==
    /\ inflight[i].op = op
    /\ inflight[i].pc = "update_student"
    /\ inflight'[i].pc = "done"

\* the emits after one event was sent to the student's session, if the
\* student has one
Delivered(studentId, event, data) ==
    IF MapGet(connectedStudents, studentId) # NULL
       THEN emitted \cup {[socketId |-> MapGet(connectedStudents, studentId),
                           event |-> event, data |-> data]}
       ELSE emitted

\* C19: assign-intervention on the student's own pending ticket leaves the
\* ticket assigned with the given task, mentor address and an assignment
\* time, the student remedial, and sends intervention_assigned with that
\* task and address to the student's registered session, if there is one.
C19_AssignEffects ==
    [][\A i \in Slots :
          LET r == inflight[i]
              k == r.body.intervention_id
          IN  (Finishes(i, "assign-intervention") /\ NamedTicketWas(r, "pending"))
              => /\ interventions'[k].status = "assigned"
                 /\ interventions'[k].remedial_task = r.body.remedial_task
                 /\ interventions'[k].mentor_email = r.body.mentor_email
                 /\ interventions'[k].assigned_at # NoTime
                 /\ students'[r.body.student_id] = "remedial"
                 /\ inflight'[i].res.code = 200
                 /\ emitted' = Delivered(r.body.student_id, "intervention_assigned",
                                         [status |-> "remedial",
                                          remedial_task |-> r.body.remedial_task,
                                          mentor_email |-> r.body.mentor_email])
      ]_vars

\* a pending ticket has been assigned and the event went to the session
C19_Witness ==
    \E i \in Slots :
        LET r == inflight[i] IN
        /\ r.op = "assign-intervention" /\ r.pc = "done"
        /\ NamedTicketWas(r, "pending")
        /\ interventions[r.body.intervention_id].status = "assigned"
        /\ students[r.body.student_id] = "remedial"
        /\ \E e \in emitted : e.event = "intervention_assigned"

\* C20: complete-remedial on the student's own assigned ticket leaves the
\* ticket completed with a completion time and the student active, and
\* sends status_update with status active to the student's session.
C20_CompleteEffects ==
    [][\A i \in Slots :
          LET r == inflight[i]
              k == r.body.intervention_id
          IN  (Finishes(i, "complete-remedial") /\ NamedTicketWas(r, "assigned"))
              => /\ interventions'[k].status = "completed"
                 /\ interventions'[k].completed_at # NoTime
                 /\ interventions'[k].remedial_task = pre.interventions[k].remedial_task
                 /\ students'[r.body.student_id] = "active"
                 /\ inflight'[i].res.code = 200
                 /\ inflight'[i].res.status = "active"
                 /\ emitted' = Delivered(r.body.student_id, "status_update",
                                         StatusData("active"))
      ]_vars

\* an assigned ticket has been completed and the event went to the session
C20_Witness ==
    \E i \in Slots :
        LET r == inflight[i] IN
        /\ r.op = "complete-remedial" /\ r.pc = "done"
        /\ NamedTicketWas(r, "assigned")
        /\ interventions[r.body.intervention_id].status = "completed"
        /\ students[r.body.student_id] = "active"
        /\ \E e \in emitted : e.event = "status_update" /\ e.data.status = "active"

\* the changes of a ticket's status the state machine allows
TicketTransitions ==
    { <<"pending", "assigned">>, <<"assigned", "completed">>,
      <<"pending", "expired">>, <<"assigned", "expired">> }

\* C21: in every step a ticket's status stays as it is or changes along
\* pending -> assigned, assigned -> completed, pending -> expired or
\* assigned -> expired; completed and expired are terminal.
C21_TicketTransitions ==
    [][\A k \in DOMAIN interventions :
          \/ interventions'[k].status = interventions[k].status
          \/ <<interventions[k].status, interventions'[k].status>> \in TicketTransitions
      ]_vars

\* C22: a pending ticket has no task, mentor, assignment time or completion
\* time; an assigned or completed ticket has a task and an assignment time;
\* only a completed ticket has a completion time.
C22_TicketFieldsFollowStatus ==
    \A k \in DOMAIN interventions :
        LET t == interventions[k] IN
        /\ t.status = "pending"
              => /\ t.remedial_task = NULL /\ t.mentor_email = NULL
                 /\ t.assigned_at = NoTime /\ t.completed_at = NoTime
        /\ t.status \in {"assigned", "completed"}
              => t.remedial_task # NULL /\ t.assigned_at # NoTime
        /\ t.completed_at # NoTime => t.status = "completed"

\* the emit calls of the step
NewEmits == emitted' \ emitted

\* handler i runs one of its statements in the step
Runs(i) == inflight'[i] # inflight[i] /\ inflight[i].pc \notin {"idle", "done"}

\* C23: an event published for a student goes to the session mapped to that
\* student at that moment and to no other; with no session mapped nothing is
\* emitted, and no step that registers or disconnects a session emits
\* anything afterwards.
C23_PublishToMappedSessionOnly ==
    [][/\ \A i \in Slots :
             Runs(i)
             => LET sock == MapGet(connectedStudents, inflight[i].body.student_id)
                IN  /\ \A e \in NewEmits : e.socketId = sock
                    /\ sock = NULL => NewEmits = {}
       /\ (\A i \in Slots : ~Runs(i)) => NewEmits = {}
      ]_vars

\* both students have a session, and the event of a check-in of "123" went
\* to the session of "123" alone
C23_Witness ==
    /\ MapGet(connectedStudents, "123") = "sockA"
    /\ MapGet(connectedStudents, "456") = "sockB"
    /\ \E i \in Slots : /\ CheckinAnswered(inflight[i])
                        /\ inflight[i].body.student_id = "123"
    /\ emitted # {}
    /\ \A e \in emitted : e.socketId = "sockA"

\* C24: a student_id is mapped to at most one session, and a register puts
\* the registering session in place of any session mapped before, leaving
\* the other students' mappings as they were.
C24_RegisterOverwrites ==
    [][/\ \A k, j \in DOMAIN connectedStudents' :
             connectedStudents'[k].studentId = connectedStudents'[j].studentId => k = j
       /\ \A sock \in SocketIds, s \in StudentIds :
             Register(sock, s)
             => /\ MapGet(connectedStudents', s) = sock
                /\ \A t \in StudentIds \ {s} :
                      MapGet(connectedStudents', t) = MapGet(connectedStudents, t)
      ]_vars

\* "123" is mapped to sockB while sockA is still connected, and an event
\* went to sockB alone
C24_Witness ==
    /\ connectedStudents = <<[studentId |-> "123", socketId |-> "sockB"]>>
    /\ sockets["sockA"] = "open"
    /\ emitted # {}
    /\ \A e \in emitted : e.socketId = "sockB"

\* C25: no student_id is mapped to a session whose connection has
\* disconnected.
C25_NoMappingToClosedSession ==
    \A k \in DOMAIN connectedStudents : sockets[connectedStudents[k].socketId] # "closed"

\* C27: daily_logs is append-only: no step of any handler (check-in, assign,
\* complete, status or history query) changes or removes a row; a row is
\* added only by a check-in, one at a time, and a check-in that passed
\* validation for an existing student has added exactly one row when it is
\* answered.
C27_LogsAppendOnly ==
    [][/\ \A k \in DOMAIN daily_logs :
             k \in DOMAIN daily_logs' /\ daily_logs'[k] = daily_logs[k]
       /\ Len(daily_logs') # Len(daily_logs)
             => /\ Len(daily_logs') = Len(daily_logs) + 1
                /\ \E i \in Slots : Runs(i) /\ inflight[i].op = "daily-checkin"
       /\ \A i \in Slots :
             (Runs(i) /\ CheckinAnswered(inflight'[i]))
             => Len(daily_logs') = Len(pre.daily_logs) + 1
      ]_vars

\* a history query has listed two logs, the first of them written before a
\* ticket was assigned
C27_Witness ==
    /\ Len(daily_logs) = 2
    /\ \E k \in DOMAIN interventions : interventions[k].status \in {"assigned", "completed"}
    /\ \E i \in Slots : /\ inflight[i].op = "get-history" /\ inflight[i].pc = "done"
                        /\ Len(inflight[i].res.logs) = 2

\* a status query has been answered
StatusAnswered(r) == r.op = "get-student" /\ r.pc = "done" /\ r.res.code = 200

\* C30: the status query of an existing student returns the stored status
\* and the student's pending or assigned ticket whenever there is one, no
\* ticket otherwise, and changes nothing in the store.
C30_StatusQueryReturnsOpenTicket ==
    \A i \in Slots :
        LET r == inflight[i]
            open == OpenTickets(interventions, r.body.student_id)
        IN  StatusAnswered(r)
            => /\ r.res.status = students[r.body.student_id]
               /\ open # {} => r.res.intervention_id \in open
               /\ open = {} => r.res.intervention_id = NoId
               /\ StoreUntouched

\* student b's row, logs and tickets are as they were when the request began
StudentUntouched(b) ==
    /\ students[b] = pre.students[b]
    /\ \A k \in DOMAIN daily_logs :
          daily_logs[k].student_id = b
          => k \in DOMAIN pre.daily_logs /\ daily_logs[k] = pre.daily_logs[k]
    /\ \A k \in DOMAIN pre.daily_logs :
          pre.daily_logs[k].student_id = b => daily_logs[k] = pre.daily_logs[k]
    /\ \A k \in DOMAIN interventions :
          interventions[k].student_id = b
          => k \in DOMAIN pre.interventions /\ interventions[k] = pre.interventions[k]
    /\ \A k \in DOMAIN pre.interventions :
          pre.interventions[k].student_id = b => interventions[k] = pre.interventions[k]

\* C28: a check-in, assign or complete issued for one student, whatever
\* ticket id it names, leaves every other student's status, logs and
\* tickets unchanged.
C28_OtherStudentUntouched ==
    \A i \in Slots :
        inflight[i].op \in {"daily-checkin", "assign-intervention", "complete-remedial"}
        => \A b \in StudentIds \ {inflight[i].body.student_id} : StudentUntouched(b)

\* an assign for "123" that names the pending ticket of "456" has been
\* answered
C28_Witness ==
    \E i \in Slots :
        LET r == inflight[i] IN
        /\ r.op = "assign-intervention" /\ r.pc = "done" /\ r.res.code = 200
        /\ r.body.student_id = "123"
        /\ r.body.intervention_id \in DOMAIN interventions
        /\ interventions[r.body.intervention_id].student_id = "456"
        /\ interventions[r.body.intervention_id].status = "pending"
        /\ students["456"] = "needs_intervention"
        /\ students["123"] = "remedial"

\* C29: a check-in for a student_id with no students row is answered 404:
\* no log, no ticket, no new student, no webhook call and no push event.
C29_UnknownStudentRejected ==
    \A i \in Slots :
        LET r == inflight[i] IN
        (/\ r.op = "daily-checkin"
         /\ r.body.student_id # NULL
         /\ r.body.student_id \notin StudentIds
         /\ ~OutOfRange(r.body))
        => /\ r.pc \in {"select_student", "done"}
           /\ r.pc = "done" => (r.res.code = 404 /\ r.res.error = "Student not found")
           /\ StoreUntouched
           /\ DOMAIN students = StudentIds
           /\ n8nPosts = {}
           /\ emitted = {}

\* a check-in of an unknown student has been rejected after another
\* student's check-in opened a ticket, with the webhook configured
C29_Witness ==
    \E i \in Slots :
        /\ inflight[i].op = "daily-checkin"
        /\ inflight[i].body.student_id = UnknownStudent
        /\ inflight[i].res.code = 404
        /\ interventions # <<>>
        /\ N8N_WEBHOOK_URL

\* the page shows the locked screen and the mentor's assignment of the
\* student's pending ticket has been answered with success
LockedAndAssigned ==
    /\ client.studentStatus = "needs_intervention"
    /\ \E i \in Slots :
          /\ inflight[i].op = "assign-intervention" /\ inflight[i].pc = "done"
          /\ inflight[i].res.code = 200
          /\ inflight[i].body.student_id = STUDENT_ID
          /\ NamedTicketWas(inflight[i], "pending")

\* C26: after a successful assign-intervention for a student whose page shows
\* the locked needs_intervention screen, the page eventually shows the
\* remedial screen with the assigned task, with no reload.
C26_LockedPageUnlocks ==
    LockedAndAssigned ~> (client.studentStatus = "remedial" /\ client.intervention # NoId)

\* a history request that has been answered with its two lists
HistoryAnswered(i) ==
    /\ inflight[i].op = "get-history" /\ inflight[i].pc = "done"
    /\ inflight[i].res.code = 200

\* q lists rows of tbl that are s's, none twice, latest first, at most n of
\* them and as many as s has up to n, and no row left out is later than a
\* listed one
MostRecent(q, tbl, s, n) ==
    /\ \A a \in DOMAIN q : q[a] \in DOMAIN tbl /\ tbl[q[a]].student_id = s
    /\ \A a, b \in DOMAIN q : a # b => q[a] # q[b]
    /\ \A a, b \in DOMAIN q : a < b => tbl[q[a]].created_at >= tbl[q[b]].created_at
    /\ Len(q) <= n
    /\ Len(q) = IF Cardinality(RowsOf(tbl, s)) <= n
                   THEN Cardinality(RowsOf(tbl, s)) ELSE n
    /\ \A k \in RowsOf(tbl, s) : \A a \in DOMAIN q :
          (\A b \in DOMAIN q : q[b] # k) => tbl[k].created_at <= tbl[q[a]].created_at

\* C31: the history query of a student returns only that student's logs and
\* tickets, each list latest first, holding the 30 most recent logs and the
\* 10 most recent tickets at most.
C31_HistoryBoundedLatestFirst ==
    \A i \in Slots :
        HistoryAnswered(i) =>
            /\ MostRecent(inflight[i].res.logs, daily_logs,
                          inflight[i].body.student_id, 30)
            /\ MostRecent(inflight[i].res.interventions, interventions,
                          inflight[i].body.student_id, 10)

\* a history is answered for a student with more than 30 logs and more than
\* 10 tickets, next to rows of the other student and two rows created together
C31_Witness ==
    \E i \in Slots :
        /\ HistoryAnswered(i)
        /\ Len(inflight[i].res.logs) = 30 /\ Len(inflight[i].res.interventions) = 10
        /\ Cardinality(RowsOf(daily_logs, inflight[i].body.student_id)) > 30
        /\ Cardinality(RowsOf(interventions, inflight[i].body.student_id)) > 10
        /\ \E k \in DOMAIN interventions :
              interventions[k].student_id # inflight[i].body.student_id
        /\ \E a, b \in DOMAIN daily_logs :
              a # b /\ daily_logs[a].created_at = daily_logs[b].created_at

\* C32: whenever no request is being handled, a student whose status is active
\* or on_track has no ticket that is pending or assigned.
C32_UnlockedHasNoOpenTicket ==
    Quiescent =>
        \A s \in StudentIds :
            students[s] \in {"active", "on_track"} => OpenTickets(interventions, s) = {}

\* C33: whenever no request is being handled, a student whose status is
\* needs_intervention has a pending ticket and a student whose status is
\* remedial has an assigned ticket.
C33_LockedHasItsTicket ==
    Quiescent =>
        \A s \in StudentIds :
            /\ students[s] = "needs_intervention" =>
                  \E k \in DOMAIN interventions :
                      interventions[k].student_id = s /\ interventions[k].status = "pending"
            /\ students[s] = "remedial" =>
                  \E k \in DOMAIN interventions :
                      interventions[k].student_id = s /\ interventions[k].status = "assigned"

\* C34: when a session disconnects, every student mapped to another session
\* keeps that mapping (so a student who registered from A, then from B, is
\* still mapped to B after A has gone), and an event published afterwards
\* for a mapped student is emitted to the session the student is mapped to.
C34_NewerSessionSurvivesDisconnect ==
    [][/\ \A sock \in SocketIds :
             Disconnect(sock)
             => \A s \in StudentIds :
                   LET kept == MapGet(connectedStudents, s)
                   IN  (kept # NULL /\ kept # sock)
                       => MapGet(connectedStudents', s) = kept
       /\ \A i \in Slots :
             (Runs(i) /\ CheckinAnswered(inflight'[i]))
             => LET sock == MapGet(connectedStudents, inflight[i].body.student_id)
                IN  sock # NULL => \E e \in emitted' : e.socketId = sock
      ]_vars

\* sockA has disconnected, "123" is mapped to sockB, which is connected, and
\* the event of a check-in of "123" went to sockB
C34_Witness ==
    /\ sockets["sockA"] = "closed" /\ sockets["sockB"] = "open"
    /\ MapGet(connectedStudents, "123") = "sockB"
    /\ \E i \in Slots : /\ CheckinAnswered(inflight[i])
                        /\ inflight[i].body.student_id = "123"
    /\ \E e \in emitted : e.socketId = "sockB"

\* the status the handler's UPDATE students statement sets
WrittenStatus(r) ==
    IF r.op = "daily-checkin"
       THEN (IF r.passed THEN "on_track" ELSE "needs_intervention")
       ELSE IF r.op = "assign-intervention" THEN "remedial" ELSE "active"

\* the handler has run every statement that writes to the store
WritesDone(r) ==
    /\ r.pc = "done" /\ r.res.code = 200
    /\ r.body.student_id \in StudentIds => students[r.body.student_id] = WrittenStatus(r)
    /\ r.op = "daily-checkin" =>
          /\ r.dailyLog \in DOMAIN daily_logs
          /\ ~r.passed => r.intervention \in DOMAIN interventions

NotFoundWithSession ==
    \E i \in Slots :
        /\ inflight[i].op = "daily-checkin" /\ inflight[i].pc = "done"
        /\ inflight[i].res.code = 404
        /\ MapGet(connectedStudents, inflight[i].body.student_id) # NULL

\* the tables the server's check-in handler leaves when it runs alone on
\* tables t at time ts: t itself when it rejects the body
ServerCheckinEffect(t, body, ts) ==
    IF Validation(body) # NULL \/ body.student_id \notin DOMAIN t.students
       THEN t
       ELSE LET passed == LogicGate(body.quiz_score, body.focus_minutes,
                                    body.tab_switches)
                log == Len(t.daily_logs) + 1
            IN  [students |-> UpdateStudentStatus(t.students, body.student_id,
                                  IF passed THEN "on_track" ELSE "needs_intervention"),
                 daily_logs |-> Append(t.daily_logs, NewLog(log, body, passed, ts)),
                 interventions |->
                     IF passed THEN t.interventions
                     ELSE Append(t.interventions,
                                 NewIntervention(Len(t.interventions) + 1,
                                                 body.student_id, log, ts))]

\* the server's check-in handler accepts the body on tables t
ServerCheckinAccepts(t, body) ==
    Validation(body) = NULL /\ body.student_id \in DOMAIN t.students

\* handler r has answered, and what it did is what the server's handler does
\* with the same body on the same tables
SameAsServer(r) ==
    r.pc = "done" =>
        /\ (r.res.code = 200) = ServerCheckinAccepts(pre, r.body)
        /\ Snapshot = ServerCheckinEffect(pre, r.body, now)

\* the server's own handler does what ServerCheckinEffect says
ServerCheckinIsItsEffect ==
    \A i \in Slots : inflight[i].op = "daily-checkin" => SameAsServer(inflight[i])

\* C36: run alone on the same tables with the same body, the serverless
\* check-in function accepts exactly when the server's handler accepts and
\* leaves the tables the server's handler leaves.
C36_ServerlessEquivalent ==
    \A i \in Slots : inflight[i].op = "serverless-checkin" => SameAsServer(inflight[i])

\* the student's check-in logs whose verdict is fail
FailedLogs(s) == {k \in DOMAIN daily_logs : daily_logs[k].student_id = s /\ ~daily_logs[k].passed}

C38_TicketNamesItsFailedLog ==
    /\ \A k \in DOMAIN interventions :
          LET t == interventions[k]
          IN  /\ t.trigger_log_id \in DOMAIN daily_logs
              /\ daily_logs[t.trigger_log_id].student_id = t.student_id
              /\ ~daily_logs[t.trigger_log_id].passed
    /\ \A k, j \in DOMAIN interventions :
          interventions[k].trigger_log_id = interventions[j].trigger_log_id => k = j

\* each student has a ticket, opened by that student's failing check-in, next
\* to nothing else in the two tables
C38_Witness ==
    /\ Len(interventions) = 2 /\ Len(daily_logs) = 2
    /\ interventions[1].student_id # interventions[2].student_id
    /\ interventions[1].trigger_log_id # interventions[2].trigger_log_id

\* the request the page's "Start New Session" button sent is in handler r
StartNewSessionRequest(r) ==
    /\ r.op = "complete-remedial" /\ r.pc # "idle"
    /\ r.body.student_id = STUDENT_ID /\ r.body.intervention_id = NoId

\* C39: the complete-remedial request of "Start New Session", which carries
\* intervention_id null, is answered with success, sets the student's stored
\* status to active and leaves every ticket as it was when it arrived.
C39_StartNewSessionKeepsTickets ==
    \A i \in Slots :
        StartNewSessionRequest(inflight[i])
        => /\ interventions = pre.interventions
           /\ inflight[i].pc = "done"
              => /\ inflight[i].res.code = 200
                 /\ students[STUDENT_ID] = "active"

\* the request of "Start New Session" has been answered for a student who
\* was on_track with a pending ticket
C39_Witness ==
    \E i \in Slots :
        /\ StartNewSessionRequest(inflight[i]) /\ inflight[i].pc = "done"
        /\ pre.students[STUDENT_ID] = "on_track"
        /\ \E k \in DOMAIN interventions :
              /\ interventions[k].student_id = STUDENT_ID
              /\ interventions[k].status = "pending"

====
